---- MODULE Spec2Model ----
(***************************************************************************)
(* CardioEye: ECG ingestion -> rule evaluation -> alert record -> live     *)
(* fan-out, with the WebSocket connection registry (server/routes.ts) and  *)
(* the persistence layer (server/storage.ts, shared/schema.ts).            *)
(*                                                                         *)
(* A request handler is an async function: every `await` is a point where  *)
(* other handlers and socket events may run, so a handler is one action    *)
(* per stretch of code between two awaits.                                 *)
(***************************************************************************)
EXTENDS Integers, Sequences, FiniteSets, TLC

VARIABLES
    ecgReadings,    \* table ecg_readings: sequence of rows, in insertion order
    healthAlerts,   \* table health_alerts: sequence of rows, in insertion order
    alertSettings,  \* table alert_settings: set of rows
    wsClients,      \* Map<string, WebSocket>: set of <<userId, socket>> entries
    sockets,        \* every WebSocket the server accepted: userId, readyState
    pushed,         \* per socket, the messages send() was called with
    gateway,        \* alert ids for which sendNotifications was called
    req,            \* POST /api/ecg/submit handlers: position, locals, response
    lastOp,         \* history: per identity, the last registry write issued
    clock,          \* the time new Date() reads, in resolve calls so far
    resolveLog,     \* PATCH .../resolve calls answered: caller, alert, response
    settingsRead    \* the last GET /api/patient/alert-settings answered

vars == <<ecgReadings, healthAlerts, alertSettings, wsClients, sockets,
          pushed, gateway, req, lastOp, clock, resolveLog, settingsRead>>

-----------------------------------------------------------------------------
(* Bounds of the model *)

MaxSubmits == 2
MaxSockets == 3
MaxResolves == 2

(* A nullable column or an optional field: <<>> is NULL / undefined. *)
Null == <<>>
Some(v) == <<v>>

(* `undefined` where the request body has no rhythm field. *)
UNDEFINED == "undefined"

(* Rows of table patients (joined with users): registration is outside the  *)
(* pipeline, so the rows are fixed.  p1 is assigned to doctor d1, whose     *)
(* user id is ud1; p2 has no doctor.                                        *)
patients ==
    { [id |-> "p1", userId |-> "u1", doctorId |-> Some("d1")],
      [id |-> "p2", userId |-> "u2", doctorId |-> Null] }

PatientIds == { p.id : p \in patients }

(* Rows of table doctors: a doctor row has its own id and the id of the     *)
(* user who logs in as that doctor.                                         *)
doctors == { [id |-> "d1", userId |-> "ud1"] }

(* Rows of table users that call the routes: two patients and two doctors.  *)
users ==
    { [id |-> "u1", role |-> "patient"],
      [id |-> "u2", role |-> "patient"],
      [id |-> "ud1", role |-> "doctor"],
      [id |-> "ud2", role |-> "doctor"] }

(* storage.getUser: the row, or undefined (the empty set). *)
getUser(id) == { u \in users : u.id = id }

getPatientWithUserOrFirst(patientId) ==
    IF \E p \in patients : p.id = patientId
      THEN { p \in patients : p.id = patientId }
      ELSE { p \in patients : p.id = "p1" }

(* storage.getPatientByUserId: the row, or undefined (the empty set). *)
getPatientByUserId(userId) == { p \in patients : p.userId = userId }

(* storage.getPatientWithUser: the row, or undefined (the empty set). *)
getPatientWithUser(patientId) == { p \in patients : p.id = patientId }

-----------------------------------------------------------------------------
(* Threshold evaluation: POST /api/ecg/submit, lines 298-336 *)

isNormalOffByOne(heartRate, rhythm) ==
    heartRate > 50 /\ heartRate <= 120 /\ rhythm = "normal"

isNormal(heartRate, rhythm) ==
    heartRate >= 50 /\ heartRate <= 120 /\ rhythm = "normal"

(* JavaScript `x || d` on a nullable integer column read through `?.`:     *)
(* undefined, null and 0 are falsy.                                         *)
OrDefault(opt, d) == IF opt = Null \/ opt = Some(0) THEN d ELSE opt[1]

(* `alertSettings?.highHeartRateThreshold || 120`; settings is the set of   *)
(* rows getAlertSettingsByPatientId found (none or one).                    *)
highThreshold(settings) ==
    IF settings = {} THEN 120
    ELSE OrDefault((CHOOSE s \in settings : TRUE).highHeartRateThreshold, 120)

lowThreshold(settings) ==
    IF settings = {} THEN 50
    ELSE OrDefault((CHOOSE s \in settings : TRUE).lowHeartRateThreshold, 50)

AlertDecisionIgnoresSettings(heartRate, rhythm, settings) ==
    IF heartRate > 120
      THEN [alertType |-> "high_heart_rate",
            severity |-> IF heartRate > 140 THEN "critical" ELSE "high"]
    ELSE IF heartRate < 50
      THEN [alertType |-> "low_heart_rate",
            severity |-> IF heartRate < 40 THEN "critical" ELSE "high"]
    ELSE IF rhythm # "normal"
      THEN [alertType |-> "irregular_rhythm", severity |-> "high"]
    ELSE [alertType |-> "abnormal_reading", severity |-> "medium"]

AlertDecisionLowBoundary(heartRate, rhythm, settings) ==
    IF heartRate > highThreshold(settings)
      THEN [alertType |-> "high_heart_rate",
            severity |-> IF heartRate > 140 THEN "critical" ELSE "high"]
    ELSE IF heartRate < lowThreshold(settings)
      THEN [alertType |-> "low_heart_rate",
            severity |-> IF heartRate <= 40 THEN "critical" ELSE "high"]
    ELSE IF rhythm # "normal"
      THEN [alertType |-> "irregular_rhythm", severity |-> "high"]
    ELSE [alertType |-> "abnormal_reading", severity |-> "medium"]

AlertDecisionHighBoundary(heartRate, rhythm, settings) ==
    IF heartRate > highThreshold(settings)
      THEN [alertType |-> "high_heart_rate",
            severity |-> IF heartRate > 150 THEN "critical" ELSE "high"]
    ELSE IF heartRate < lowThreshold(settings)
      THEN [alertType |-> "low_heart_rate",
            severity |-> IF heartRate < 40 THEN "critical" ELSE "high"]
    ELSE IF rhythm # "normal"
      THEN [alertType |-> "irregular_rhythm", severity |-> "high"]
    ELSE [alertType |-> "abnormal_reading", severity |-> "medium"]

(* The if / else-if chain of lines 315-327: first match wins. *)
AlertDecision(heartRate, rhythm, settings) ==
    IF heartRate > highThreshold(settings)
      THEN [alertType |-> "high_heart_rate",
            severity |-> IF heartRate > 140 THEN "critical" ELSE "high"]
    ELSE IF heartRate < lowThreshold(settings)
      THEN [alertType |-> "low_heart_rate",
            severity |-> IF heartRate < 40 THEN "critical" ELSE "high"]
    ELSE IF rhythm # "normal"
      THEN [alertType |-> "irregular_rhythm", severity |-> "high"]
    ELSE [alertType |-> "abnormal_reading", severity |-> "medium"]

(* An alert type as the words and underscores it is spelled with. *)
TypeChars(alertType) ==
    CASE alertType = "high_heart_rate" -> <<"high", "_", "heart", "_", "rate">>
      [] alertType = "low_heart_rate" -> <<"low", "_", "heart", "_", "rate">>
      [] alertType = "irregular_rhythm" -> <<"irregular", "_", "rhythm">>
      [] OTHER -> <<"abnormal", "_", "reading">>

(* String.prototype.replace with a string pattern: the first match only. *)
RECURSIVE ReplaceFirst(_, _, _)
ReplaceFirst(s, from, to) ==
    IF s = <<>> THEN <<>>
    ELSE IF Head(s) = from THEN <<to>> \o Tail(s)
    ELSE <<Head(s)>> \o ReplaceFirst(Tail(s), from, to)

(* toUpperCase on the words of the model's alphabet. *)
Upper(w) ==
    CASE w = "high" -> "HIGH" [] w = "low" -> "LOW" [] w = "heart" -> "HEART"
      [] w = "rate" -> "RATE" [] w = "irregular" -> "IRREGULAR"
      [] w = "rhythm" -> "RHYTHM" [] w = "abnormal" -> "ABNORMAL"
      [] w = "reading" -> "READING" [] OTHER -> w

(* The template literal of line 335; rhythm is the raw body field. *)
AlertMessage(alertType, heartRate, rhythm) ==
    [head |-> [i \in DOMAIN TypeChars(alertType) |->
                  Upper(ReplaceFirst(TypeChars(alertType), "_", " ")[i])],
     heartRate |-> heartRate,
     rhythm |-> rhythm]

(* `rhythm || 'normal'` of line 305. *)
StoredRhythm(rhythm) == IF rhythm = UNDEFINED THEN "normal" ELSE rhythm

-----------------------------------------------------------------------------
(* Persistence: server/storage.ts over shared/schema.ts *)

(* gen_random_uuid() primary keys: a value no earlier row has. *)
NewId(table) == Len(table) + 1

Rows(table) == { table[i] : i \in DOMAIN table }

createEcgReadingDefaultFlag(table, reading) ==
    Append(table, [id |-> NewId(table),
                   patientId |-> reading.patientId,
                   heartRate |-> reading.heartRate,
                   rhythm |-> reading.rhythm,
                   isNormal |-> reading.isNormal,
                   alertTriggered |-> FALSE])

(* createEcgReading: insert ... returning, with the column defaults. *)
createEcgReading(table, reading) ==
    Append(table, [id |-> NewId(table),
                   patientId |-> reading.patientId,
                   heartRate |-> reading.heartRate,
                   rhythm |-> reading.rhythm,
                   isNormal |-> reading.isNormal,
                   alertTriggered |-> reading.alertTriggered])

(* createHealthAlert: insert ... returning; is_resolved defaults to false,  *)
(* resolved_by and resolved_at to NULL.                                     *)
createHealthAlert(table, alert) ==
    Append(table, [id |-> NewId(table),
                   patientId |-> alert.patientId,
                   ecgReadingId |-> alert.ecgReadingId,
                   alertType |-> alert.alertType,
                   severity |-> alert.severity,
                   message |-> alert.message,
                   isResolved |-> FALSE,
                   resolvedBy |-> Null,
                   resolvedAt |-> Null])

markAlertAsResolvedToggles(table, alertId, resolvedBy, at) ==
    [i \in DOMAIN table |->
        IF table[i].id = alertId
          THEN [table[i] EXCEPT !.isResolved = ~table[i].isResolved,
                                !.resolvedBy = Some(resolvedBy),
                                !.resolvedAt = Some(at)]
          ELSE table[i]]

markAlertAsResolvedFirstWins(table, alertId, resolvedBy, at) ==
    [i \in DOMAIN table |->
        IF table[i].id = alertId /\ ~table[i].isResolved
          THEN [table[i] EXCEPT !.isResolved = TRUE,
                                !.resolvedBy = Some(resolvedBy),
                                !.resolvedAt = Some(at)]
          ELSE table[i]]

(* markAlertAsResolved: update health_alerts set is_resolved, resolved_by,  *)
(* resolved_at where id = alertId.  Every row with that id is written, be   *)
(* it resolved already or not; with no such row nothing is written and      *)
(* nothing is reported.  `at` is new Date().                                *)
markAlertAsResolved(table, alertId, resolvedBy, at) ==
    [i \in DOMAIN table |->
        IF table[i].id = alertId
          THEN [table[i] EXCEPT !.isResolved = TRUE,
                                !.resolvedBy = Some(resolvedBy),
                                !.resolvedAt = Some(at)]
          ELSE table[i]]

(* getAlertSettingsByPatientId: the rows found; `[settings] = rows` takes   *)
(* the first, and patient_id is unique.                                     *)
getAlertSettingsByPatientId(table, patientId) ==
    { s \in table : s.patientId = patientId }

(* The column defaults of table alert_settings. *)
SettingsDefault(field) ==
    CASE field = "highHeartRateThreshold" -> Some(120)
      [] field = "lowHeartRateThreshold" -> Some(50)
      [] field = "enableWhatsAppAlerts" -> Some(TRUE)
      [] field = "enableSmsAlerts" -> Some(TRUE)

SettingsColumns ==
    { "highHeartRateThreshold", "lowHeartRateThreshold",
      "enableWhatsAppAlerts", "enableSmsAlerts" }

(* A function as a record over the settings columns plus patientId. *)
SettingsRow(patientId, col) ==
    [patientId |-> patientId,
     highHeartRateThreshold |-> col["highHeartRateThreshold"],
     lowHeartRateThreshold |-> col["lowHeartRateThreshold"],
     enableWhatsAppAlerts |-> col["enableWhatsAppAlerts"],
     enableSmsAlerts |-> col["enableSmsAlerts"]]

(* createOrUpdateAlertSettings: insert(values) on conflict (patient_id) do  *)
(* update set(values).  `values` is a function from the fields the caller   *)
(* gave (patientId among them) to their values: a column not given takes    *)
(* its default on insert and keeps its value on update.                     *)
createOrUpdateAlertSettings(table, values) ==
    LET pid == values["patientId"]
        old == { s \in table : s.patientId = pid }
        given == DOMAIN values
        col == [f \in SettingsColumns |->
                   IF f \in given THEN values[f]
                   ELSE IF old = {} THEN SettingsDefault(f)
                   ELSE (CHOOSE s \in old : TRUE)[f]]
    IN  (table \ old) \cup { SettingsRow(pid, col) }

-----------------------------------------------------------------------------
(* Connection registry: wsClients, and the sockets it points at *)

UserIds == { "u1", "u2", "ud1", "d1" }

SocketIds == 1..MaxSockets

(* Map.prototype.get: Some(socket), or Null for undefined. *)
Lookup(map, userId) ==
    IF \E e \in map : e[1] = userId
      THEN Some((CHOOSE e \in map : e[1] = userId)[2])
      ELSE Null

RegisterKeepsOld(map, userId, ws) ==
    IF \E e \in map : e[1] = userId THEN map ELSE map \cup { <<userId, ws>> }

(* Map.prototype.set: wsClients.set(userId, ws), line 363. *)
Register(map, userId, ws) ==
    { e \in map : e[1] # userId } \cup { <<userId, ws>> }

UnregisterKeeps(map, userId) == map

(* Map.prototype.delete: wsClients.delete(userId), lines 367 and 373. *)
Unregister(map, userId) == { e \in map : e[1] # userId }

(* The payload of lines 380-389, before JSON.stringify; the patient's name *)
(* is left out.                                                             *)
Payload(alert, patient) ==
    [type |-> "health_alert",
     data |-> [alert |-> alert, patient |-> [id |-> patient.id]]]

SendIfOpenTwice(log, target, message) ==
    IF target # Null /\ sockets[target[1]].readyState = "OPEN"
      THEN [log EXCEPT ![target[1]] = Append(Append(@, message), message)]
      ELSE log

(* patientWs.send(message) behind the guard of lines 393 and 401: the log   *)
(* of a socket holds every message send() was called with.                  *)
SendIfOpen(log, target, message) ==
    IF target # Null /\ sockets[target[1]].readyState = "OPEN"
      THEN [log EXCEPT ![target[1]] = Append(@, message)]
      ELSE log

(* Whether the guard of lines 393 and 401 lets send() be called. *)
IsOpen(target) == target # Null /\ sockets[target[1]].readyState = "OPEN"

(* wsClients.get(patient.doctorId), line 400, behind the guard of line 398. *)
DoctorSocket(patient) ==
    IF patient.doctorId # Null THEN Lookup(wsClients, patient.doctorId[1]) ELSE Null

broadcastAlertToEveryone(log, alert, patient) ==
    [ws \in SocketIds |->
        IF sockets[ws].readyState = "OPEN"
          THEN Append(log[ws], Payload(alert, patient)) ELSE log[ws]]

broadcastAlertUnsaved(log, alert, patient) ==
    LET message == Payload([alert EXCEPT !.id = 0], patient)
        afterPatient == SendIfOpen(log, Lookup(wsClients, patient.userId), message)
    IN  SendIfOpen(afterPatient, DoctorSocket(patient), message)

(* broadcastAlert, lines 379-405, when every send() returns: the patient's  *)
(* socket, then the socket registered under patient.doctorId.               *)
broadcastAlert(log, alert, patient) ==
    LET message == Payload(alert, patient)
        afterPatient == SendIfOpen(log, Lookup(wsClients, patient.userId), message)
    IN  SendIfOpen(afterPatient, DoctorSocket(patient), message)

(* broadcastAlert with the ways it can end: it returns, or a send() it      *)
(* called throws (nothing in lines 391-404 catches), which ends it at that  *)
(* call.                                                                    *)
BroadcastOutcomes(log, alert, patient) ==
    LET message == Payload(alert, patient)
        patientWs == Lookup(wsClients, patient.userId)
        afterPatient == SendIfOpen(log, patientWs, message)
    IN  { [log |-> broadcastAlert(log, alert, patient), threw |-> FALSE] }
        \cup (IF IsOpen(patientWs)
                THEN { [log |-> afterPatient, threw |-> TRUE] } ELSE {})
        \cup (IF IsOpen(DoctorSocket(patient))
                THEN { [log |-> SendIfOpen(afterPatient, DoctorSocket(patient), message),
                        threw |-> TRUE] }
                ELSE {})

(* The guard of line 339 on the settings the handler read. *)
NotificationsEnabled(settings) ==
    /\ settings # {}
    /\ LET s == CHOOSE x \in settings : TRUE
       IN  s.enableWhatsAppAlerts = Some(TRUE) \/ s.enableSmsAlerts = Some(TRUE)

-----------------------------------------------------------------------------
(* POST /api/ecg/submit, lines 288-352 *)

Requests == 1..MaxSubmits

IdleRequest ==
    [pc |-> "idle", patientId |-> "", heartRate |-> 0, rhythm |-> "",
     isNormal |-> FALSE, reading |-> Null, settings |-> {}, decision |-> Null,
     alert |-> Null, status |-> "none"]

CatchErrorAnswersSuccess(request) == [request EXCEPT !.pc = "done", !.status = "200"]

(* The catch of lines 348-351: whatever threw inside the try, the handler   *)
(* answers 500 and ends.                                                    *)
CatchError(request) == [request EXCEPT !.pc = "done", !.status = "500"]

(* A device posts a body; the handler starts and awaits getPatientWithUser. *)
SubmitEcg(r, body) ==
    /\ req[r].pc = "idle"
    /\ \A q \in Requests : q < r => req[q].pc # "idle"
    /\ req' = [req EXCEPT ![r] = [IdleRequest EXCEPT
                  !.pc = "getPatientWithUser",
                  !.patientId = body.patientId,
                  !.heartRate = body.heartRate,
                  !.rhythm = body.rhythm]]
    /\ UNCHANGED <<ecgReadings, healthAlerts, alertSettings, wsClients, sockets,
                   pushed, gateway, lastOp, clock, resolveLog, settingsRead>>

(* Lines 293-309: 404 for an unknown patient; otherwise isNormal is         *)
(* computed and createEcgReading is awaited.                                *)
ValidatePatient(r) ==
    /\ req[r].pc = "getPatientWithUser"
    /\ req' = [req EXCEPT ![r] =
                  IF getPatientWithUser(req[r].patientId) = {}
                    THEN [@ EXCEPT !.pc = "done", !.status = "404"]
                    ELSE [@ EXCEPT !.pc = "createEcgReading",
                                   !.isNormal = isNormal(req[r].heartRate, req[r].rhythm)]]
    /\ UNCHANGED <<ecgReadings, healthAlerts, alertSettings, wsClients, sockets,
                   pushed, gateway, lastOp, clock, resolveLog, settingsRead>>

(* Lines 302-313 and 347-351: the insert either returns the row or throws   *)
(* into the catch (500).  A normal reading is answered at once; an abnormal *)
(* one awaits getAlertSettingsByPatientId.                                  *)
StoreReading(r) ==
    /\ req[r].pc = "createEcgReading"
    /\ \E inserted \in BOOLEAN :
        IF inserted
          THEN LET table == createEcgReading(ecgReadings,
                              [patientId |-> req[r].patientId,
                               heartRate |-> req[r].heartRate,
                               rhythm |-> StoredRhythm(req[r].rhythm),
                               isNormal |-> req[r].isNormal,
                               alertTriggered |-> ~req[r].isNormal])
                   reading == table[Len(table)]
               IN  /\ ecgReadings' = table
                   /\ req' = [req EXCEPT ![r] =
                        IF req[r].isNormal
                          THEN [@ EXCEPT !.pc = "done", !.status = "200",
                                         !.reading = Some(reading)]
                          ELSE [@ EXCEPT !.pc = "getAlertSettingsByPatientId",
                                         !.reading = Some(reading)]]
          ELSE /\ req' = [req EXCEPT ![r] = CatchError(req[r])]
               /\ UNCHANGED ecgReadings
    /\ UNCHANGED <<healthAlerts, alertSettings, wsClients, sockets,
                   pushed, gateway, lastOp, clock, resolveLog, settingsRead>>

(* Lines 313-336: the settings row is read, the alert type and severity are *)
(* decided, and createHealthAlert is awaited.                               *)
EvaluateAlert(r) ==
    /\ req[r].pc = "getAlertSettingsByPatientId"
    /\ LET settings == getAlertSettingsByPatientId(alertSettings, req[r].patientId)
       IN  req' = [req EXCEPT ![r] = [@ EXCEPT
                     !.pc = "createHealthAlert",
                     !.settings = settings,
                     !.decision = Some(AlertDecision(req[r].heartRate, req[r].rhythm,
                                                     settings))]]
    /\ UNCHANGED <<ecgReadings, healthAlerts, alertSettings, wsClients, sockets,
                   pushed, gateway, lastOp, clock, resolveLog, settingsRead>>

(* Lines 343-351: broadcastAlert, then the 200 response; a send() that     *)
(* throws lands in the catch.                                               *)
Dispatch(r, alert) ==
    LET patient == CHOOSE p \in getPatientWithUser(req[r].patientId) : TRUE
    IN  \E out \in BroadcastOutcomes(pushed, alert, patient) :
            /\ pushed' = out.log
            /\ req' = [req EXCEPT ![r] =
                  IF out.threw
                    THEN CatchError([@ EXCEPT !.alert = Some(alert)])
                    ELSE [@ EXCEPT !.pc = "done", !.status = "200",
                                   !.alert = Some(alert)]]

(* Lines 330-351: the insert either returns the alert or throws into the    *)
(* catch (500).  With the alert and a toggle of the settings read on,       *)
(* sendNotifications is called and awaited (line 340); otherwise the        *)
(* handler goes on to broadcastAlert and the response.                      *)
CreateAlert(r) ==
    /\ req[r].pc = "createHealthAlert"
    /\ \E inserted \in BOOLEAN :
        IF inserted
          THEN LET d == req[r].decision[1]
                   table == createHealthAlert(healthAlerts,
                              [patientId |-> req[r].patientId,
                               ecgReadingId |-> req[r].reading[1].id,
                               alertType |-> d.alertType,
                               severity |-> d.severity,
                               message |-> AlertMessage(d.alertType, req[r].heartRate,
                                                        req[r].rhythm)])
                   alert == table[Len(table)]
               IN  /\ healthAlerts' = table
                   /\ IF NotificationsEnabled(req[r].settings)
                        THEN /\ gateway' = gateway \cup { alert.id }
                             /\ req' = [req EXCEPT ![r] = [@ EXCEPT
                                           !.pc = "sendNotifications",
                                           !.alert = Some(alert)]]
                             /\ UNCHANGED pushed
                        ELSE /\ Dispatch(r, alert)
                             /\ UNCHANGED gateway
          ELSE /\ req' = [req EXCEPT ![r] = CatchError(req[r])]
               /\ UNCHANGED <<healthAlerts, gateway, pushed>>
    /\ UNCHANGED <<ecgReadings, alertSettings, wsClients, sockets, lastOp,
                   clock, resolveLog, settingsRead>>

(* Line 340 resumes: the promise of sendNotifications settles (its own      *)
(* try/catch, lines 409-431, keeps it from rejecting), and the handler goes *)
(* on to broadcastAlert and the response.                                   *)
SendNotificationsReturns(r) ==
    /\ req[r].pc = "sendNotifications"
    /\ Dispatch(r, req[r].alert[1])
    /\ UNCHANGED <<ecgReadings, healthAlerts, alertSettings, wsClients, sockets,
                   gateway, lastOp, clock, resolveLog, settingsRead>>

-----------------------------------------------------------------------------
(* PUT /api/patient/alert-settings, lines 263-285 *)

(* `{ patientId: patient.id, ...req.body }`: a later key overrides. *)
SpreadBody(patientId, body) ==
    [f \in DOMAIN body \cup { "patientId" } |->
        IF f \in DOMAIN body THEN body[f] ELSE patientId]

(* The signed-in patient writes a body; the upsert is one statement. *)
UpdateAlertSettings(patientId, body) ==
    /\ alertSettings' =
          createOrUpdateAlertSettings(alertSettings, SpreadBody(patientId, body))
    /\ UNCHANGED <<ecgReadings, healthAlerts, wsClients, sockets, pushed,
                   gateway, req, lastOp, clock, resolveLog, settingsRead>>

(* GET /api/patient/alert-settings, lines 243-261: 403 for a caller who is  *)
(* not a patient, 404 for a patient user without a patient row; otherwise   *)
(* res.json(settings) with what getAlertSettingsByPatientId returned, the   *)
(* row or undefined.  `stored` keeps what the table held for the patient,   *)
(* `json` what was sent.                                                    *)
GetAlertSettings(sub) ==
    /\ LET user == getUser(sub)
           patient == getPatientByUserId(sub)
       IN  settingsRead' =
             IF user = {} \/ (CHOOSE u \in user : TRUE).role # "patient"
               THEN Some([caller |-> sub, status |-> "403", stored |-> {}, json |-> {}])
             ELSE IF patient = {}
               THEN Some([caller |-> sub, status |-> "404", stored |-> {}, json |-> {}])
             ELSE LET pid == (CHOOSE x \in patient : TRUE).id
                      settings == getAlertSettingsByPatientId(alertSettings, pid)
                  IN  Some([caller |-> sub, status |-> "200",
                            stored |-> { s \in alertSettings : s.patientId = pid },
                            json |-> settings])
    /\ UNCHANGED <<ecgReadings, healthAlerts, alertSettings, wsClients, sockets,
                   pushed, gateway, req, lastOp, clock, resolveLog>>

-----------------------------------------------------------------------------
(* wss.on('connection'), lines 358-376 *)

NoSocket == [userId |-> Null, readyState |-> "NONE"]

(* A client connects with ?userId=... (Some) or without it (Null). *)
Connect(userId) ==
    \E ws \in SocketIds :
        /\ sockets[ws].readyState = "NONE"
        /\ \A c \in SocketIds : c < ws => sockets[c].readyState # "NONE"
        /\ sockets' = [sockets EXCEPT ![ws] = [userId |-> userId, readyState |-> "OPEN"]]
        /\ IF userId # Null
             THEN /\ wsClients' = Register(wsClients, userId[1], ws)
                  /\ lastOp' = [lastOp EXCEPT ![userId[1]] = <<"set", ws>>]
             ELSE UNCHANGED <<wsClients, lastOp>>
        /\ UNCHANGED <<ecgReadings, healthAlerts, alertSettings, pushed, gateway, req,
                       clock, resolveLog, settingsRead>>

OnCloseOrErrorDropsAll(ws) ==
    /\ wsClients' = {}
    /\ lastOp' = [u \in UserIds |-> <<"delete">>]

(* The handlers of lines 366-374 exist only on a socket that gave a userId. *)
OnCloseOrError(ws) ==
    IF sockets[ws].userId # Null
      THEN /\ wsClients' = Unregister(wsClients, sockets[ws].userId[1])
           /\ lastOp' = [lastOp EXCEPT ![sockets[ws].userId[1]] = <<"delete">>]
      ELSE UNCHANGED <<wsClients, lastOp>>

(* 'error': the socket is no longer OPEN and is about to close. *)
SocketError(ws) ==
    /\ sockets[ws].readyState = "OPEN"
    /\ sockets' = [sockets EXCEPT ![ws].readyState = "CLOSING"]
    /\ OnCloseOrError(ws)
    /\ UNCHANGED <<ecgReadings, healthAlerts, alertSettings, pushed, gateway, req,
                       clock, resolveLog, settingsRead>>

(* 'close': after an error, or on its own. *)
SocketClose(ws) ==
    /\ sockets[ws].readyState \in { "OPEN", "CLOSING" }
    /\ sockets' = [sockets EXCEPT ![ws].readyState = "CLOSED"]
    /\ OnCloseOrError(ws)
    /\ UNCHANGED <<ecgReadings, healthAlerts, alertSettings, pushed, gateway, req,
                       clock, resolveLog, settingsRead>>

-----------------------------------------------------------------------------
(* PATCH /api/doctor/alerts/:alertId/resolve, lines 186-200 *)

(* The authenticated caller `sub` asks to resolve alertId.  A caller who is *)
(* not a doctor gets 403; otherwise the update runs and the handler answers *)
(* success, or the update throws and the catch answers 500.  The call and   *)
(* its response are appended to resolveLog, with whether a row had the id   *)
(* at the time; the clock gives new Date().                                 *)
ResolveAlert(sub, alertId) ==
    /\ Len(resolveLog) < MaxResolves
    /\ \E updated \in BOOLEAN :
        LET user == getUser(sub)
            isDoctor == user # {} /\ (CHOOSE u \in user : TRUE).role = "doctor"
            status == IF ~isDoctor THEN "403" ELSE IF updated THEN "200" ELSE "500"
        IN  /\ healthAlerts' =
                  IF isDoctor /\ updated
                    THEN markAlertAsResolved(healthAlerts, alertId, sub, clock)
                    ELSE healthAlerts
            /\ resolveLog' = Append(resolveLog,
                  [caller |-> sub, alertId |-> alertId, at |-> clock, status |-> status,
                   matched |-> \E a \in Rows(healthAlerts) : a.id = alertId])
    /\ clock' = clock + 1
    /\ UNCHANGED <<ecgReadings, alertSettings, wsClients, sockets, pushed, gateway,
                   req, lastOp, settingsRead>>

-----------------------------------------------------------------------------
(* Specifications *)

InitEmpty ==
    /\ ecgReadings = <<>>
    /\ healthAlerts = <<>>
    /\ wsClients = {}
    /\ sockets = [ws \in SocketIds |-> NoSocket]
    /\ pushed = [ws \in SocketIds |-> <<>>]
    /\ gateway = {}
    /\ req = [r \in Requests |-> IdleRequest]
    /\ lastOp = [u \in UserIds |-> <<>>]
    /\ clock = 0
    /\ resolveLog = <<>>
    /\ settingsRead = Null

Pipeline ==
    \E r \in Requests :
        \/ ValidatePatient(r)
        \/ StoreReading(r)
        \/ EvaluateAlert(r)
        \/ CreateAlert(r)
        \/ SendNotificationsReturns(r)

(* The store under concurrent handlers: submissions interleaved at their   *)
(* awaits with each other and with settings writes.                         *)
Bodies ==
    [patientId : { "p1", "p9" }, heartRate : { 90, 150 },
     rhythm : { "normal", "afib" }]

SettingsBodies ==
    { [enableWhatsAppAlerts |-> Some(FALSE), enableSmsAlerts |-> Some(FALSE)],
      [highHeartRateThreshold |-> Some(150)],
      [patientId |-> "p2", lowHeartRateThreshold |-> Some(0)] }

Init ==
    /\ InitEmpty
    /\ alertSettings = {}

Next ==
    \/ \E r \in Requests, body \in Bodies : SubmitEcg(r, body)
    \/ Pipeline
    \/ \E body \in SettingsBodies : UpdateAlertSettings("p1", body)

Spec == Init /\ [][Next]_vars

(* The connection registry: clients connect with or without a userId,       *)
(* sockets fail and close, and one submission for p1 (patient user u1,      *)
(* doctor d1 whose user is ud1) or for p2 (patient user u2, no doctor)      *)
(* dispatches its alert; p9 is no patient.                                  *)
ConnectIds == { Some("u1"), Some("u2"), Some("ud1"), Some("d1"), Null }

RegistryBodies ==
    [patientId : { "p1", "p2", "p9" }, heartRate : { 150 }, rhythm : { "normal" }]

(* p1 has no settings row, or the row of schema defaults. *)
InitRegistry ==
    /\ InitEmpty
    /\ alertSettings \in
          { {}, { SettingsRow("p1", [c \in SettingsColumns |-> SettingsDefault(c)]) } }

NextRegistry ==
    \/ \E body \in RegistryBodies : SubmitEcg(1, body)
    \/ Pipeline
    \/ \E userId \in ConnectIds : Connect(userId)
    \/ \E ws \in SocketIds : SocketError(ws)
    \/ \E ws \in SocketIds : SocketClose(ws)

SpecRegistry == InitRegistry /\ [][NextRegistry]_vars

(* Resolution: alerts created by two submissions for p1 are resolved by the *)
(* doctors ud1 and ud2, the patient u1 tries to, and an id no alert has is  *)
(* resolved too.                                                            *)
ResolveCallers == { "u1", "ud1", "ud2" }

(* The ids the two alerts get, and 9, which no alert gets. *)
ResolveAlertIds == { 1, 2, 9 }

ResolveBodies ==
    [patientId : { "p1" }, heartRate : { 150 }, rhythm : { "normal" }]

(* p1 has the row of schema defaults. *)
InitResolve ==
    /\ InitEmpty
    /\ alertSettings = { SettingsRow("p1", [c \in SettingsColumns |-> SettingsDefault(c)]) }

NextResolve ==
    \/ \E r \in { 1, 2 }, body \in ResolveBodies : SubmitEcg(r, body)
    \/ Pipeline
    \/ \E sub \in ResolveCallers, alertId \in ResolveAlertIds : ResolveAlert(sub, alertId)

SpecResolve == InitResolve /\ [][NextResolve]_vars

(* The life of an alert among everything else the server does: one          *)
(* submission for p1, resolves of its alert by two doctors, settings        *)
(* writes by p1, and u1's client connecting, failing and closing.           *)
LifecycleSettingsBodies == { [highHeartRateThreshold |-> Some(150)] }

NextLifecycle ==
    \/ \E body \in ResolveBodies : SubmitEcg(1, body)
    \/ Pipeline
    \/ \E sub \in { "ud1", "ud2" } : ResolveAlert(sub, 1)
    \/ \E body \in LifecycleSettingsBodies : UpdateAlertSettings("p1", body)
    \/ Connect(Some("u1"))
    \/ \E ws \in SocketIds : SocketError(ws)
    \/ \E ws \in SocketIds : SocketClose(ws)

SpecLifecycle == InitResolve /\ [][NextLifecycle]_vars

(* Settings: p1 writes its settings, the patients u1 and u2 and the doctor  *)
(* ud1 read theirs, and one submission for p1 is evaluated.                 *)
SettingsReaders == { "u1", "u2", "ud1" }

NextSettings ==
    \/ \E body \in ResolveBodies : SubmitEcg(1, body)
    \/ Pipeline
    \/ \E body \in SettingsBodies : UpdateAlertSettings("p1", body)
    \/ \E sub \in SettingsReaders : GetAlertSettings(sub)

SpecSettings == Init /\ [][NextSettings]_vars

(* The evaluator on a wide alphabet: one submission for p1 against every    *)
(* settings row a PUT can have stored (no validation: any integer or null   *)
(* threshold), or against no row.                                           *)
EvalHeartRates ==
    { 0, 35, 39, 40, 45, 49, 50, 51, 90, 120, 121, 130, 140, 141, 145, 150, 160 }

EvalRhythms == { "normal", "afib", UNDEFINED }

EvalBodies ==
    [patientId : { "p1", "p9" }, heartRate : EvalHeartRates, rhythm : EvalRhythms]

EvalSettingsRows ==
    [patientId : { "p1" },
     highHeartRateThreshold : { Null, Some(0), Some(100), Some(120), Some(150) },
     lowHeartRateThreshold : { Null, Some(0), Some(50), Some(60), Some(135) },
     enableWhatsAppAlerts : { Some(TRUE), Some(FALSE) },
     enableSmsAlerts : { Some(FALSE) }]

InitEval ==
    /\ InitEmpty
    /\ alertSettings \in { {} } \cup { { s } : s \in EvalSettingsRows }

NextEval ==
    \/ \E body \in EvalBodies : SubmitEcg(1, body)
    \/ Pipeline

SpecEval == InitEval /\ [][NextEval]_vars

-----------------------------------------------------------------------------
(* Vocabulary of the properties *)

(* The alerts that reference a reading. *)
AlertsOf(readingId) ==
    { i \in DOMAIN healthAlerts : healthAlerts[i].ecgReadingId = readingId }

(* The handlers that have answered, with the reading they stored. *)
Answered == { r \in Requests : req[r].pc = "done" /\ req[r].reading # Null }

(* The handlers whose alert insert returned a row. *)
Alerted == { r \in Requests : req[r].alert # Null }

(* The subject's own thresholds: the stored value, whatever integer it is;  *)
(* 120 and 50 where there is no row or the column is NULL.                  *)
SubjectHigh(patientId) ==
    LET rows == { s \in alertSettings : s.patientId = patientId }
    IN  IF rows = {} THEN 120
        ELSE LET v == (CHOOSE s \in rows : TRUE).highHeartRateThreshold
             IN  IF v = Null THEN 120 ELSE v[1]

SubjectLow(patientId) ==
    LET rows == { s \in alertSettings : s.patientId = patientId }
    IN  IF rows = {} THEN 50
        ELSE LET v == (CHOOSE s \in rows : TRUE).lowHeartRateThreshold
             IN  IF v = Null THEN 50 ELSE v[1]

HasNoSettings(patientId) == \A s \in alertSettings : s.patientId # patientId

IsAlert(r, alertType, severity) ==
    /\ req[r].alert[1].alertType = alertType
    /\ req[r].alert[1].severity = severity
    /\ req[r].alert[1] \in Rows(healthAlerts)

-----------------------------------------------------------------------------
(* C1: once a submission has been answered (with success or with failure),  *)
(* the reading it persisted has exactly one alert referencing it if its     *)
(* alertTriggered flag is true and none if it is false.  This is the        *)
(* claim's invariant on the states between handlers; the claim asks it of   *)
(* every state, the ones inside a handler included.                         *)
C1_ReadingHasItsAlert ==
    \A r \in Answered :
        Cardinality(AlertsOf(req[r].reading[1].id)) =
            IF req[r].reading[1].alertTriggered THEN 1 ELSE 0

(* C2: the persisted reading has isNormal = true exactly when the submitted *)
(* heart rate is in 50..120 and the submitted rhythm is "normal", whatever  *)
(* settings row the subject has; and such a reading never gets an alert.    *)
C2_NormalIffFixedBand ==
    \A r \in Requests :
        req[r].reading # Null =>
            LET reading == req[r].reading[1]
                inBand == /\ 50 <= req[r].heartRate
                          /\ req[r].heartRate <= 120
                          /\ req[r].rhythm = "normal"
            IN  /\ reading \in Rows(ecgReadings)
                /\ reading.isNormal = inBand
                /\ inBand => AlertsOf(reading.id) = {} /\ req[r].alert = Null

(* Witness of C2: heart rate 120 with rhythm "normal" was stored as normal  *)
(* and answered for a subject whose own high threshold is 100.              *)
C2_Witness ==
    /\ req[1].pc = "done"
    /\ req[1].status = "200"
    /\ req[1].heartRate = 120
    /\ req[1].rhythm = "normal"
    /\ req[1].reading # Null
    /\ req[1].reading[1].isNormal
    /\ SubjectHigh("p1") = 100
    /\ healthAlerts = <<>>

(* C3: an alert for a heart rate above the subject's high threshold (120    *)
(* without settings) has type high_heart_rate, with severity critical above *)
(* 140 and high otherwise.                                                  *)
C3_AboveHighThreshold ==
    \A r \in Alerted :
        req[r].heartRate > SubjectHigh(req[r].patientId) =>
            IsAlert(r, "high_heart_rate",
                    IF req[r].heartRate > 140 THEN "critical" ELSE "high")

(* C4: an alert for a heart rate that does not exceed the subject's high    *)
(* threshold and is below the subject's low threshold (50 without settings) *)
(* has type low_heart_rate, with severity critical below 40 and high        *)
(* otherwise.                                                               *)
C4_BelowLowThreshold ==
    \A r \in Alerted :
        /\ ~(req[r].heartRate > SubjectHigh(req[r].patientId))
        /\ req[r].heartRate < SubjectLow(req[r].patientId)
        => IsAlert(r, "low_heart_rate",
                   IF req[r].heartRate < 40 THEN "critical" ELSE "high")

(* Witness of C4: heart rate 35 for a subject without settings was alerted  *)
(* as low_heart_rate / critical.                                            *)
C4_Witness ==
    /\ req[1].alert # Null
    /\ req[1].heartRate = 35
    /\ HasNoSettings("p1")
    /\ IsAlert(1, "low_heart_rate", "critical")

(* C5: an alert for a heart rate within the subject's [low, high]           *)
(* thresholds and a rhythm other than "normal" has type irregular_rhythm    *)
(* and severity high; outside the thresholds the rate rules decide.         *)
C5_IrregularRhythm ==
    \A r \in Alerted :
        /\ req[r].heartRate >= SubjectLow(req[r].patientId)
        /\ req[r].heartRate <= SubjectHigh(req[r].patientId)
        /\ req[r].rhythm # "normal"
        => IsAlert(r, "irregular_rhythm", "high")

(* C6: an alert for rhythm "normal" and a heart rate within the subject's   *)
(* own thresholds (so abnormal only under the fixed band) has type          *)
(* abnormal_reading and severity medium; and no alert has severity low.     *)
C6_AbnormalReading ==
    /\ \A r \in Alerted :
        /\ req[r].heartRate >= SubjectLow(req[r].patientId)
        /\ req[r].heartRate <= SubjectHigh(req[r].patientId)
        /\ req[r].rhythm = "normal"
        => IsAlert(r, "abnormal_reading", "medium")
    /\ \A a \in Rows(healthAlerts) : a.severity # "low"

(* The case C7 is about: stored high threshold 150, heart rate 130, rhythm  *)
(* "normal", alert created.                                                 *)
C7_Case(r) ==
    /\ r \in Alerted
    /\ req[r].heartRate = 130
    /\ req[r].rhythm = "normal"
    /\ ~HasNoSettings(req[r].patientId)
    /\ SubjectHigh(req[r].patientId) = 150

(* C7 as claimed: the reading is stored with isNormal = false and the alert *)
(* is high_heart_rate / high.                                               *)
C7_Original ==
    \A r \in Requests :
        C7_Case(r) => /\ ~req[r].reading[1].isNormal
                      /\ IsAlert(r, "high_heart_rate", "high")

(* C7 amended: the reading is stored with isNormal = false and, the         *)
(* subject's low threshold being at most 130, the alert is                  *)
(* abnormal_reading / medium: 130 does not exceed 150.                      *)
C7_Amended ==
    \A r \in Requests :
        C7_Case(r) /\ SubjectLow(req[r].patientId) <= 130
        => /\ ~req[r].reading[1].isNormal
           /\ req[r].reading[1] \in Rows(ecgReadings)
           /\ IsAlert(r, "abnormal_reading", "medium")

(* Witness of C7: the case happened, answered with the alert stored. *)
C7_Witness ==
    /\ C7_Case(1)
    /\ SubjectLow("p1") <= 130
    /\ req[1].pc = "done"
    /\ IsAlert(1, "abnormal_reading", "medium")

(* The case C8 is about: heart rate 150, rhythm "normal", no settings row. *)
C8_Case(r) ==
    /\ r \in Alerted
    /\ req[r].heartRate = 150
    /\ req[r].rhythm = "normal"
    /\ HasNoSettings(req[r].patientId)

(* C8 as claimed: the decision is high_heart_rate / high. *)
C8_Original ==
    \A r \in Requests : C8_Case(r) => IsAlert(r, "high_heart_rate", "high")

(* C8 amended: the decision is high_heart_rate / critical (150 > 140). *)
C8_Amended ==
    \A r \in Requests : C8_Case(r) => IsAlert(r, "high_heart_rate", "critical")

(* Witness of C8: the case happened, answered with the alert stored. *)
C8_Witness ==
    /\ C8_Case(1)
    /\ req[1].pc = "done"
    /\ IsAlert(1, "high_heart_rate", "critical")

-----------------------------------------------------------------------------
(* The newest socket of its identity: OPEN, and no socket accepted later    *)
(* gave the same userId.                                                    *)
IsNewestOpen(ws) ==
    /\ sockets[ws].readyState = "OPEN"
    /\ sockets[ws].userId # Null
    /\ \A c \in SocketIds : c > ws => sockets[c].userId # sockets[ws].userId

(* C9: the close or error of an older socket of an identity leaves the      *)
(* registration of the identity's newer socket in place: while the newest   *)
(* socket of an identity is open, lookup of the identity returns it.        *)
C9_StaleCloseKeepsNewer ==
    \A ws \in SocketIds :
        IsNewestOpen(ws) => Lookup(wsClients, sockets[ws].userId[1]) = Some(ws)

(* C10: the registry holds at most one socket per identity, and lookup of   *)
(* every identity is what the last set or delete issued for that identity   *)
(* left: the socket of the last set, or nothing after a delete or when      *)
(* nothing was issued.                                                      *)
C10_LookupReflectsLastOp ==
    /\ \A e1, e2 \in wsClients : e1[1] = e2[1] => e1 = e2
    /\ \A u \in UserIds :
        Lookup(wsClients, u) =
            IF lastOp[u] # <<>> /\ lastOp[u][1] = "set" THEN Some(lastOp[u][2]) ELSE Null

(* Witness of C10: an identity was set twice (the second socket replaced    *)
(* the first, which is still open) while another identity's last operation  *)
(* was a delete.                                                            *)
C10_Witness ==
    \E u, v \in UserIds, a, b \in SocketIds :
        /\ u # v
        /\ a < b
        /\ sockets[a] = [userId |-> Some(u), readyState |-> "OPEN"]
        /\ sockets[b] = [userId |-> Some(u), readyState |-> "OPEN"]
        /\ lastOp[u] = <<"set", b>>
        /\ Lookup(wsClients, u) = Some(b)
        /\ lastOp[v] = <<"delete">>
        /\ Lookup(wsClients, v) = Null

-----------------------------------------------------------------------------
(* Live fan-out *)

(* The patient row a handler found. *)
PatientOf(r) == CHOOSE p \in patients : p.id = req[r].patientId

(* The step in which handler r runs broadcastAlert: it holds the alert row  *)
(* and ends.                                                                *)
DispatchStep(r) ==
    /\ req[r].pc \in { "createHealthAlert", "sendNotifications" }
    /\ req'[r].pc = "done"
    /\ req'[r].alert # Null

(* The user ids the assigned doctor's client connects under: the userId of  *)
(* the doctors row patient.doctorId names.                                  *)
ObserverUserIds(patient) ==
    { d.userId : d \in { x \in doctors : patient.doctorId = Some(x.id) } }

(* Socket ws is registered under userId and open. *)
OpenSessionOf(userId, ws) ==
    /\ Lookup(wsClients, userId) = Some(ws)
    /\ sockets[ws].readyState = "OPEN"

(* C11: in the step that dispatches an alert, if the subject's user has an  *)
(* open socket in the registry, send() is called on that socket exactly     *)
(* once, with the alert; and send() is never called on a socket outside a   *)
(* dispatch step.                                                           *)
C11_OnePushToSubject ==
    [][ /\ \A r \in Requests : DispatchStep(r) =>
              \A ws \in SocketIds : OpenSessionOf(PatientOf(r).userId, ws) =>
                  pushed'[ws] = Append(pushed[ws],
                                       Payload(req'[r].alert[1], PatientOf(r)))
        /\ (pushed' # pushed => \E r \in Requests : DispatchStep(r)) ]_vars

(* Witness of C11: p2 (no doctor) was answered 200 and its alert is the one *)
(* message on the open socket registered under u2.                          *)
C11_Witness ==
    /\ req[1].pc = "done" /\ req[1].status = "200" /\ req[1].patientId = "p2"
    /\ req[1].alert # Null
    /\ \E ws \in SocketIds :
          /\ OpenSessionOf("u2", ws)
          /\ pushed[ws] = << Payload(req[1].alert[1], PatientOf(1)) >>

(* C12: in the step that dispatches an alert and ends in the 200 response,  *)
(* if the subject has an assigned doctor and the doctor's user has an open  *)
(* socket in the registry, send() is called on that socket exactly once,    *)
(* with the alert.                                                          *)
C12_OnePushToObserver ==
    [][ \A r \in Requests : DispatchStep(r) /\ req'[r].status = "200" =>
            \A userId \in ObserverUserIds(PatientOf(r)), ws \in SocketIds :
                OpenSessionOf(userId, ws) =>
                    pushed'[ws] = Append(pushed[ws],
                                         Payload(req'[r].alert[1], PatientOf(r))) ]_vars

(* The subject of handler r has no socket in the registry and no doctor. *)
Unobserved(r) ==
    /\ Lookup(wsClients, PatientOf(r).userId) = Null
    /\ PatientOf(r).doctorId = Null

(* C13: a handler that created its alert for a subject with no registered   *)
(* socket and no assigned doctor calls send() on no socket and answers 200, *)
(* with the alert row in the table.                                         *)
C13_NoRecipientNoPush ==
    [][ \A r \in Requests : DispatchStep(r) /\ Unobserved(r) =>
            /\ pushed' = pushed
            /\ req'[r].status = "200"
            /\ req'[r].alert[1] \in Rows(healthAlerts') ]_vars

(* Witness of C13: p2 was answered 200 with its alert stored, u2 has no     *)
(* socket while another client's socket is open, and nothing was pushed.    *)
C13_Witness ==
    /\ req[1].pc = "done" /\ req[1].status = "200" /\ req[1].patientId = "p2"
    /\ req[1].alert # Null /\ req[1].alert[1] \in Rows(healthAlerts)
    /\ \A ws \in SocketIds : sockets[ws].userId # Some("u2") /\ pushed[ws] = <<>>
    /\ \E ws \in SocketIds : sockets[ws].readyState = "OPEN"

(* C14: a send() that throws is not surfaced.  In the step that dispatches  *)
(* an alert the handler answers 200, the alert row is in the table, and     *)
(* send() is called on each open socket broadcastAlert looks up (the one    *)
(* under patient.userId and the one under patient.doctorId).                *)
C14_SendFailureNotSurfaced ==
    [][ \A r \in Requests : DispatchStep(r) =>
            /\ req'[r].status = "200"
            /\ req'[r].alert[1] \in Rows(healthAlerts')
            /\ \A target \in { Lookup(wsClients, PatientOf(r).userId),
                               DoctorSocket(PatientOf(r)) } :
                   IsOpen(target) => Len(pushed'[target[1]]) = Len(pushed[target[1]]) + 1
      ]_vars

-----------------------------------------------------------------------------
(* External notification gateway *)

(* C15: the handler does not wait for the gateway.  Once sendNotifications  *)
(* has been called for a handler's alert, that handler has already run      *)
(* broadcastAlert and answered: no state has it suspended on the call.      *)
C15_GatewayNotAwaited ==
    \A r \in Alerted : req[r].alert[1].id \in gateway => req[r].pc = "done"

(* The toggles in effect for a subject: those of its settings row, or the   *)
(* column defaults of the schema when it has no row.                        *)
EffectiveToggle(settings, field) ==
    IF settings = {} THEN SettingsDefault(field)
    ELSE IF field = "enableWhatsAppAlerts"
           THEN (CHOOSE s \in settings : TRUE).enableWhatsAppAlerts
           ELSE (CHOOSE s \in settings : TRUE).enableSmsAlerts

(* C16: for every handler that created its alert and went past line 339,    *)
(* sendNotifications was called for the alert if and only if WhatsApp or    *)
(* SMS alerts are enabled in the subject's effective settings.              *)
C16_GatewayIffEffectiveToggle ==
    \A r \in Alerted : req[r].pc \in { "sendNotifications", "done" } =>
        ( req[r].alert[1].id \in gateway
            <=> \/ EffectiveToggle(req[r].settings, "enableWhatsAppAlerts") = Some(TRUE)
                \/ EffectiveToggle(req[r].settings, "enableSmsAlerts") = Some(TRUE) )

-----------------------------------------------------------------------------
(* Persistence failures *)

(* Handler r ended on a rejected insert: past the patient check without a   *)
(* reading row, or with an abnormal reading row and no alert row.           *)
InsertRejected(r) ==
    /\ req[r].pc = "done"
    /\ req[r].status # "404"
    /\ \/ req[r].reading = Null
       \/ ~req[r].reading[1].isNormal /\ req[r].alert = Null

(* C17: a handler whose reading insert or alert insert was rejected answers *)
(* 500, its reading (if stored) has no alert, and every message pushed and  *)
(* every gateway call is for the alert row of a handler whose inserts       *)
(* succeeded.                                                               *)
C17_RejectedInsertAborts ==
    \A r \in Requests : InsertRejected(r) =>
        /\ req[r].status = "500"
        /\ req[r].reading # Null => AlertsOf(req[r].reading[1].id) = {}
        /\ \A ws \in SocketIds : \A i \in 1..Len(pushed[ws]) :
               \E r2 \in Alerted : pushed[ws][i].data.alert = req[r2].alert[1]
        /\ \A id \in gateway : \E r2 \in Alerted : req[r2].alert[1].id = id

(* Witness of C17: the alert insert for p1 was rejected while u1's socket   *)
(* was open and registered and the settings row had its toggles on; nothing *)
(* was pushed and the gateway was not called.                               *)
C17_Witness ==
    /\ InsertRejected(1) /\ req[1].reading # Null /\ req[1].patientId = "p1"
    /\ NotificationsEnabled(req[1].settings)
    /\ \E ws \in SocketIds : OpenSessionOf("u1", ws)
    /\ \A ws \in SocketIds : pushed[ws] = <<>>
    /\ gateway = {}

(* C18: whatever was pushed or handed to the gateway was stored first.      *)
(* Every message send() was called with carries an alert row of the table,  *)
(* the one its handler's insert returned, for that handler's patient; and   *)
(* every gateway call was for the id of such a row.                         *)
C18_StoredBeforeFanOut ==
    /\ \A ws \in SocketIds : \A i \in 1..Len(pushed[ws]) :
           /\ pushed[ws][i].data.alert \in Rows(healthAlerts)
           /\ \E r \in Alerted :
                  /\ pushed[ws][i].data.alert = req[r].alert[1]
                  /\ pushed[ws][i].data.patient.id = req[r].patientId
    /\ \A id \in gateway :
           \E r \in Alerted : req[r].alert[1].id = id /\ req[r].alert[1] \in Rows(healthAlerts)

(* Witness of C18: the gateway was called for p1's alert and the alert was  *)
(* then pushed to u1's socket.                                              *)
C18_Witness ==
    /\ req[1].pc = "done" /\ req[1].alert # Null
    /\ req[1].alert[1].id \in gateway
    /\ \E ws \in SocketIds :
          /\ sockets[ws].userId = Some("u1")
          /\ pushed[ws] = << Payload(req[1].alert[1], PatientOf(1)) >>

-----------------------------------------------------------------------------
(* Resolution *)

(* The resolve calls for alertId that found its row and were answered 200,  *)
(* as positions of resolveLog.                                              *)
ResolvesOf(alertId) ==
    { i \in DOMAIN resolveLog :
        /\ resolveLog[i].alertId = alertId
        /\ resolveLog[i].matched
        /\ resolveLog[i].status = "200" }

(* The greatest element of a non-empty set of numbers. *)
Last(S) == CHOOSE i \in S : \A j \in S : j <= i

(* The step answers a resolve call. *)
ResolveStep == Len(resolveLog') = Len(resolveLog) + 1

(* C19: a doctor's resolve of an id no alert row has is not answered with   *)
(* success (it fails with not-found), and leaves the alert table as it was. *)
C19_UnknownIdNotFound ==
    [][ ResolveStep =>
          LET call == resolveLog'[Len(resolveLog')]
          IN  ( call.status # "403" /\ ~call.matched )
              => call.status # "200" /\ healthAlerts' = healthAlerts ]_vars

(* C20: resolving again is accepted and the last resolve wins.  Every alert *)
(* row is unresolved if no resolve of its id was answered 200, and          *)
(* otherwise carries the caller and the time of the last such resolve; the  *)
(* rest of the row is what its insert returned.  A doctor's resolve whose   *)
(* update goes through is answered 200 whether or not the alert was         *)
(* resolved already, and writes no row of another id.                       *)
C20_LastResolveWins ==
    /\ \A a \in Rows(healthAlerts) :
          /\ IF ResolvesOf(a.id) = {}
               THEN ~a.isResolved /\ a.resolvedBy = Null /\ a.resolvedAt = Null
               ELSE LET call == resolveLog[Last(ResolvesOf(a.id))]
                    IN  /\ a.isResolved
                        /\ a.resolvedBy = Some(call.caller)
                        /\ a.resolvedAt = Some(call.at)
          /\ \A r \in Alerted : req[r].alert[1].id = a.id =>
                [a EXCEPT !.isResolved = FALSE, !.resolvedBy = Null,
                          !.resolvedAt = Null] = req[r].alert[1]
    /\ \A i \in DOMAIN resolveLog :
          resolveLog[i].status \in { "200", "403", "500" }

(* Witness of C20: alert 1 was resolved by ud1 and then by ud2, both        *)
(* answered 200; it carries ud2 and the second time, and alert 2 is still   *)
(* unresolved.                                                              *)
C20_Witness ==
    /\ Len(resolveLog) >= 2 /\ Len(healthAlerts) = 2
    /\ resolveLog[1].caller = "ud1" /\ resolveLog[2].caller = "ud2"
    /\ \A i \in { 1, 2 } :
          /\ resolveLog[i].alertId = 1 /\ resolveLog[i].matched
          /\ resolveLog[i].status = "200" /\ resolveLog[i].at = i - 1
    /\ healthAlerts[1].resolvedBy = Some("ud2") /\ healthAlerts[1].resolvedAt = Some(1)
    /\ ~healthAlerts[2].isResolved

(* C21: an alert row is inserted unresolved with resolvedBy and resolvedAt  *)
(* unset; a row turns resolved only in a step that answers 200 to a resolve *)
(* of its id; a resolved row is resolved in the next state whatever the     *)
(* step; and no row leaves the table.                                       *)
C21_ResolvedIsTerminal ==
    [][ /\ Len(healthAlerts') >= Len(healthAlerts)
        /\ \A i \in DOMAIN healthAlerts' :
              IF i \in DOMAIN healthAlerts
                THEN /\ healthAlerts[i].isResolved => healthAlerts'[i].isResolved
                     /\ healthAlerts'[i].isResolved /\ ~healthAlerts[i].isResolved
                          => /\ ResolveStep
                             /\ resolveLog'[Len(resolveLog')].alertId = healthAlerts[i].id
                             /\ resolveLog'[Len(resolveLog')].status = "200"
                ELSE /\ ~healthAlerts'[i].isResolved
                     /\ healthAlerts'[i].resolvedBy = Null
                     /\ healthAlerts'[i].resolvedAt = Null ]_vars

(* Witness of C21: the alert was resolved, resolved again, and is resolved  *)
(* after a settings write and the close of u1's socket.                     *)
C21_Witness ==
    /\ Len(healthAlerts) = 1 /\ healthAlerts[1].isResolved
    /\ Len(resolveLog) = 2 /\ resolveLog[2].status = "200" /\ resolveLog[2].matched
    /\ \E s \in alertSettings : s.highHeartRateThreshold = Some(150)
    /\ \E ws \in SocketIds : sockets[ws].readyState = "CLOSED"
    /\ req[1].pc = "done"

-----------------------------------------------------------------------------
(* Validation *)

(* C22: a handler whose patientId names no patient row moves only to its    *)
(* 404 answer, and the step that answers writes no reading and no alert,    *)
(* calls send() on no socket and does not call the gateway; the handler     *)
(* holds no reading and no alert.                                           *)
C22_UnknownSubjectNoEffect ==
    [][ \A r \in Requests :
          req[r].pc # "idle" /\ req[r].patientId \notin PatientIds =>
              /\ req[r].reading = Null /\ req[r].alert = Null
              /\ req'[r] # req[r] =>
                    /\ req'[r].pc = "done" /\ req'[r].status = "404"
                    /\ req'[r].reading = Null /\ req'[r].alert = Null
                    /\ UNCHANGED <<ecgReadings, healthAlerts, pushed, gateway>> ]_vars

(* Witness of C22: the submission for p9 was answered 404 while u1 had an   *)
(* open registered socket and p1 a settings row; nothing is stored, pushed  *)
(* or handed to the gateway.                                                *)
C22_Witness ==
    /\ req[1].pc = "done" /\ req[1].status = "404" /\ req[1].patientId = "p9"
    /\ \E ws \in SocketIds : OpenSessionOf("u1", ws)
    /\ alertSettings # {}
    /\ ecgReadings = <<>> /\ healthAlerts = <<>> /\ gateway = {}
    /\ \A ws \in SocketIds : pushed[ws] = <<>>

-----------------------------------------------------------------------------
(* Settings *)

(* The row of column defaults for a patient. *)
DefaultSettings(patientId) ==
    SettingsRow(patientId, [c \in SettingsColumns |-> SettingsDefault(c)])

(* C23: a read answered 200 for a patient with no stored settings row sends *)
(* the default settings, whose thresholds are the ones the evaluator uses   *)
(* for a patient without a row.                                             *)
C23_ReadReturnsDefaults ==
    settingsRead # Null =>
        LET read == settingsRead[1]
            pid == (CHOOSE x \in getPatientByUserId(read.caller) : TRUE).id
        IN  read.status = "200" /\ read.stored = {} =>
                /\ read.json = { DefaultSettings(pid) }
                /\ \A s \in read.json :
                      /\ s.highHeartRateThreshold = Some(highThreshold({}))
                      /\ s.lowHeartRateThreshold = Some(lowThreshold({}))

-----------------------------------------------------------------------------
(* Connections without identity *)

(* Socket ws was accepted without a userId. *)
Anonymous(ws) == sockets[ws].readyState # "NONE" /\ sockets[ws].userId = Null

(* C24: a socket accepted without a userId is in no registry entry and      *)
(* send() is never called on it; and a step in which such a socket fails or *)
(* closes leaves the registry as it was.                                    *)
C24_AnonymousNeverRegistered ==
    /\ [](\A ws \in SocketIds : Anonymous(ws) =>
              /\ \A e \in wsClients : e[2] # ws
              /\ pushed[ws] = <<>>)
    /\ [][ \A ws \in SocketIds :
              Anonymous(ws) /\ sockets'[ws].readyState # sockets[ws].readyState
                  => wsClients' = wsClients ]_vars

(* Witness of C24: a socket without userId was accepted and has closed, u1  *)
(* is still registered with an open socket that got p1's alert, and nothing *)
(* was sent to the anonymous socket.                                        *)
C24_Witness ==
    /\ \E ws \in SocketIds :
          Anonymous(ws) /\ sockets[ws].readyState = "CLOSED" /\ pushed[ws] = <<>>
    /\ \E ws \in SocketIds : OpenSessionOf("u1", ws) /\ Len(pushed[ws]) = 1
    /\ req[1].pc = "done" /\ req[1].alert # Null

-----------------------------------------------------------------------------
(* Omitted rhythm, message, flags *)

(* C25: a submission without a rhythm field is handled as rhythm "normal":  *)
(* its reading is stored with rhythm "normal", and with a heart rate in     *)
(* [50, 120] the reading has isNormal true and alertTriggered false and no  *)
(* alert references it.                                                     *)
C25_OmittedRhythmIsNormal ==
    \A r \in Requests : req[r].rhythm = UNDEFINED /\ req[r].reading # Null =>
        LET reading == req[r].reading[1]
        IN  /\ reading.rhythm = "normal"
            /\ req[r].heartRate \in 50..120 =>
                  /\ reading.isNormal
                  /\ ~reading.alertTriggered
                  /\ AlertsOf(reading.id) = {}

(* A sequence with every `from` replaced by `to`. *)
ReplaceAll(s, from, to) == [i \in DOMAIN s |-> IF s[i] = from THEN to ELSE s[i]]

(* C26: the message of every alert a handler created starts with the alert  *)
(* type, every underscore replaced by a space, in upper case, and carries   *)
(* the submitted heart rate.                                                *)
C26_MessageFormat ==
    \A r \in Alerted :
        LET alert == req[r].alert[1]
            words == ReplaceAll(TypeChars(alert.alertType), "_", " ")
        IN  /\ alert.message.head = [i \in DOMAIN words |-> Upper(words[i])]
            /\ alert.message.heartRate = req[r].heartRate

-----------------------------------------------------------------------------
(* Teardown *)

(* C27: every socket in the registry is one whose close and error have not  *)
(* been handled (it is OPEN); when the socket registered for an identity    *)
(* fails or closes, lookup of the identity is absent after the step; and    *)
(* lookup of an identity goes from absent to a socket only in a step where  *)
(* a client connects under that identity.                                   *)
C27_NoHandledChannelRegistered ==
    /\ [](\A e \in wsClients : sockets[e[2]].readyState = "OPEN")
    /\ [][ \A u \in UserIds :
              /\ \A ws \in SocketIds :
                    Lookup(wsClients, u) = Some(ws) /\ sockets'[ws].readyState # "OPEN"
                        => Lookup(wsClients', u) = Null
              /\ Lookup(wsClients, u) = Null /\ Lookup(wsClients', u) # Null
                    => \E ws \in SocketIds :
                          /\ sockets[ws].readyState = "NONE"
                          /\ sockets'[ws] = [userId |-> Some(u), readyState |-> "OPEN"]
                          /\ Lookup(wsClients', u) = Some(ws) ]_vars

(* Witness of C27: u1's registered socket failed and then closed, lookup of *)
(* u1 is absent, and ud1 is registered with an open socket.                 *)
C27_Witness ==
    /\ Lookup(wsClients, "u1") = Null
    /\ \E ws \in SocketIds :
          sockets[ws] = [userId |-> Some("u1"), readyState |-> "CLOSED"]
    /\ \A ws \in SocketIds : sockets[ws].userId = Some("u1") => sockets[ws].readyState = "CLOSED"
    /\ \E ws \in SocketIds : OpenSessionOf("ud1", ws)

(* C28: every row of ecg_readings has alertTriggered = ~isNormal; and a     *)
(* handler that answered 200 answered with a reading that is a row of the   *)
(* table, for the submitted patient and heart rate, whose isNormal is the   *)
(* value line 299 computes and whose alertTriggered is its negation.        *)
C28_FlagsDerived ==
    /\ \A row \in Rows(ecgReadings) : row.alertTriggered = ~row.isNormal
    /\ \A r \in Requests : req[r].status = "200" =>
          /\ req[r].reading # Null
          /\ req[r].reading[1] \in Rows(ecgReadings)
          /\ req[r].reading[1].patientId = req[r].patientId
          /\ req[r].reading[1].heartRate = req[r].heartRate
          /\ req[r].reading[1].isNormal = isNormal(req[r].heartRate, req[r].rhythm)
          /\ req[r].reading[1].alertTriggered = ~isNormal(req[r].heartRate, req[r].rhythm)

(* Witness of C28: an abnormal submission (heart rate 45, no settings row)  *)
(* was answered 200 with its stored reading, flagged not normal and alert   *)
(* triggered.                                                               *)
C28_Witness ==
    /\ req[1].pc = "done" /\ req[1].status = "200"
    /\ req[1].heartRate = 45 /\ HasNoSettings("p1")
    /\ req[1].reading # Null
    /\ req[1].reading[1] \in Rows(ecgReadings)
    /\ ~req[1].reading[1].isNormal /\ req[1].reading[1].alertTriggered

-----------------------------------------------------------------------------
(* Settings writes and stored thresholds *)

(* C29: a settings write by p1 (the only writer here) creates or replaces   *)
(* p1's row only, whatever the body holds: no other subject has a row, and  *)
(* no subject has two.                                                      *)
C29_WriteOwnRecordOnly ==
    /\ \A s \in alertSettings : s.patientId = "p1"
    /\ \A s, t \in alertSettings : s.patientId = t.patientId => s = t

(* C30: the alert decision compares the heart rate with the subject's       *)
(* stored thresholds, whatever integers they are (0 included), and with 120 *)
(* and 50 only where no row or no value is stored: the decided type is      *)
(* high_heart_rate exactly when the heart rate is above the stored high     *)
(* threshold, and low_heart_rate exactly when it is not and is below the    *)
(* stored low threshold.                                                    *)
C30_StoredThresholdsUsed ==
    \A r \in Requests : req[r].decision # Null =>
        LET above == req[r].heartRate > SubjectHigh(req[r].patientId)
            below == req[r].heartRate < SubjectLow(req[r].patientId)
        IN  /\ req[r].decision[1].alertType = "high_heart_rate" <=> above
            /\ req[r].decision[1].alertType = "low_heart_rate" <=> ~above /\ below

====
